---- MODULE Spec2Model ----
(***************************************************************************)
(* Message-send orchestration of internal/api/msg.go: envelope building    *)
(* (newUserSendMsgReq), the modified-fields diff (getModifyFields) and the  *)
(* four send handlers (SendMessage, SendBusinessNotification, BatchSendMsg, *)
(* SendSimpleMessage) with their collaborators.                             *)
(***************************************************************************)
EXTENDS Integers, Sequences, FiniteSets, TLC

(***************************************************************************)
(* Optional values: a nil pointer / nil map is the empty tuple, a present   *)
(* value v is the one-element tuple <<v>>.                                  *)
(***************************************************************************)
Nil == <<>>
Some(v) == <<v>>
IsNil(o) == o = <<>>
Val(o) == o[1]

Range(s) == {s[i] : i \in 1..Len(s)}
EmptyMap == [k \in {} |-> TRUE]

(***************************************************************************)
(* Symbolic values of the constants of the protocol's constant package      *)
(* that msg.go names.                                                       *)
(***************************************************************************)
Text == "constant.Text"
Picture == "constant.Picture"
Voice == "constant.Voice"
Video == "constant.Video"
File == "constant.File"
AtText == "constant.AtText"
Custom == "constant.Custom"
MarkdownText == "constant.MarkdownText"
OANotification == "constant.OANotification"
BusinessNotification == "constant.BusinessNotification"
\* a content-type tag that getSendMsgReq's switch has no case for
Location == "constant.Location"

SingleChatType == "constant.SingleChatType"
ReadGroupChatType == "constant.ReadGroupChatType"
NotificationChatType == "constant.NotificationChatType"

SysMsgType == "constant.SysMsgType"
UserMsgType == "constant.UserMsgType"
AdminPlatformID == "constant.AdminPlatformID"
MsgSendSuccessed == "constant.MsgSendSuccessed"

IsHistory == "constant.IsHistory"
IsPersistent == "constant.IsPersistent"
IsSenderSync == "constant.IsSenderSync"
IsConversationUpdate == "constant.IsConversationUpdate"
IsOfflinePush == "constant.IsOfflinePush"

(***************************************************************************)
(* Byte strings and JSON text.  []byte(s) wraps the text s; string(bs)      *)
(* unwraps it; StructToJsonString(v) is the JSON text of v.                 *)
(***************************************************************************)
Bytes(s) == <<"bytes", s>>
BytesToString(bs) == bs[2]
\* a request's Content travels with its JSON text in the field json
StructToJsonString(content) == content.json
\* the JSON text of sdkws.NotificationElem{Detail: detail}
NotificationElemJson(detail) == "{detail:" \o detail \o "}"

(***************************************************************************)
(* idutil.GetMsgIDByMD5(sendID): an MD5 over the clock reading, the given   *)
(* ID and a random number; salt stands for the clock reading and the random *)
(* number the call draws.                                                   *)
(***************************************************************************)
GetMsgIDByMD5(sendID, salt) == "md5(" \o salt \o "," \o sendID \o ")"

(***************************************************************************)
(* sdkws.MsgData: the zero value, and the JSON names of its fields in       *)
(* field-number order.                                                      *)
(***************************************************************************)
ZeroMsgData ==
    [sendID |-> "", recvID |-> "", groupID |-> "", clientMsgID |-> "",
     serverMsgID |-> "", senderPlatformID |-> "", senderNickname |-> "",
     senderFaceURL |-> "", sessionType |-> "", msgFrom |-> "",
     contentType |-> "", content |-> Bytes(""), seq |-> 0, sendTime |-> 0,
     createTime |-> 0, status |-> 0, isRead |-> FALSE, options |-> EmptyMap,
     offlinePushInfo |-> Nil, atUserIDList |-> <<>>, attachedInfo |-> "",
     ex |-> ""]

MsgDataFields ==
    <<"sendID", "recvID", "groupID", "clientMsgID", "serverMsgID",
      "senderPlatformID", "senderNickname", "senderFaceURL", "sessionType",
      "msgFrom", "contentType", "content", "seq", "sendTime", "createTime",
      "status", "isRead", "options", "offlinePushInfo", "atUserIDList",
      "attachedInfo", "ex">>

\* msg.SendMsgResp: the JSON names of its fields
SendMsgRespFields == <<"serverMsgID", "clientMsgID", "sendTime", "modify">>

(***************************************************************************)
(* Delivery options.                                                        *)
(***************************************************************************)
\* datautil.SetSwitchFromOptions: options[key] = value
SetSwitchFromOptions(options, key, value) ==
    [k \in DOMAIN options \cup {key} |-> IF k = key THEN value ELSE options[k]]

SetOptions_dropSenderSync(options, value) ==
    SetSwitchFromOptions(
        SetSwitchFromOptions(
            SetSwitchFromOptions(options, IsHistory, value),
            IsPersistent, value),
        IsConversationUpdate, value)

SetOptions(options, value) ==
    SetSwitchFromOptions(
        SetSwitchFromOptions(
            SetSwitchFromOptions(
                SetSwitchFromOptions(options, IsHistory, value),
                IsPersistent, value),
            IsSenderSync, value),
        IsConversationUpdate, value)

\* lines 140-145: the option map newUserSendMsgReq writes
BuildOptions_alwaysWritten(params) ==
    SetSwitchFromOptions(SetOptions(EmptyMap, ~params.IsOnlineOnly),
                         IsOfflinePush, ~params.NotOfflinePush)

BuildOptions(params) ==
    LET o1 == IF params.IsOnlineOnly THEN SetOptions(EmptyMap, FALSE)
              ELSE EmptyMap
    IN  IF params.NotOfflinePush
        THEN SetSwitchFromOptions(o1, IsOfflinePush, FALSE)
        ELSE o1

(***************************************************************************)
(* newUserSendMsgReq(params, data): the envelope of a send.  data is the    *)
(* decoded content, [elem |-> the element type, AtUserList |-> ...]; now    *)
(* is timeutil.GetCurrentTimestampByMill().                                 *)
(***************************************************************************)
NewContent(params) ==
    IF params.ContentType = OANotification
    THEN NotificationElemJson(StructToJsonString(params.Content))
    ELSE StructToJsonString(params.Content)

AtUserIDListOf(params, data) ==
    IF params.ContentType \in {Text, AtText} /\ data.elem = "AtElem"
    THEN data.AtUserList
    ELSE <<>>

newUserSendMsgReq(params, data, now, salt) ==
    [ZeroMsgData EXCEPT
        !.sendID = params.SendID,
        !.groupID = params.GroupID,
        !.clientMsgID = GetMsgIDByMD5(params.SendID, salt),
        !.senderPlatformID = params.SenderPlatformID,
        !.senderNickname = params.SenderNickname,
        !.senderFaceURL = params.SenderFaceURL,
        !.sessionType = params.SessionType,
        !.msgFrom = SysMsgType,
        !.contentType = params.ContentType,
        !.createTime = now,
        !.sendTime = params.SendTime,
        !.offlinePushInfo = params.OfflinePushInfo,
        !.ex = params.Ex,
        !.atUserIDList = AtUserIDListOf(params, data),
        !.content = Bytes(NewContent(params)),
        !.options = BuildOptions(params)]

(***************************************************************************)
(* getSendMsgReq: the element type the content-type switch selects          *)
(* ("" for the default case), and the decode and validation of the content. *)
(* A request's Content carries form: "wellformed", "mistyped" (WeakDecode   *)
(* cannot coerce it) or "incomplete" (a required field is missing).         *)
(***************************************************************************)
ElemOf(contentType) ==
    CASE contentType = Text -> "TextElem"
      [] contentType = Picture -> "PictureElem"
      [] contentType = Voice -> "SoundElem"
      [] contentType = Video -> "VideoElem"
      [] contentType = File -> "FileElem"
      [] contentType = AtText -> "AtElem"
      [] contentType = Custom -> "CustomElem"
      [] contentType = MarkdownText -> "MarkdownTextElem"
      [] contentType = OANotification -> "OANotificationElem"
      [] OTHER -> ""

WeakDecodeErr(content) == content.form = "mistyped"

ValidateErr_skipped(content) == FALSE

ValidateErr(content) == content.form = "incomplete"

\* the decoded element: the at-user list is a field of AtElem alone
DecodedData(params) ==
    [elem |-> ElemOf(params.ContentType),
     AtUserList |-> IF ElemOf(params.ContentType) = "AtElem"
                    THEN params.Content.AtUserList ELSE <<>>]

WithSessionType_asGiven(params) == params

\* line 224: the OA notification case overrides the session type
WithSessionType(params) ==
    IF params.ContentType = OANotification
    THEN [params EXCEPT !.SessionType = NotificationChatType]
    ELSE params

(***************************************************************************)
(* getMsgDataDescriptor: the MsgData fields whose JSON name is not a JSON   *)
(* name of SendMsgResp, in field order.                                     *)
(***************************************************************************)
getMsgDataDescriptor_noSkip == MsgDataFields

getMsgDataDescriptor ==
    LET skip == Range(SendMsgRespFields)
    IN  SelectSeq(MsgDataFields, LAMBDA name : name \notin skip)

(***************************************************************************)
(* getModifyFields(req, respModify): both are optional MsgData.             *)
(***************************************************************************)
\* lines 252-258: the value recorded for a field
FieldValue(name, val) == IF name = "content" THEN BytesToString(val) ELSE val

ModifiedNames(req, respModify) ==
    {name \in Range(getMsgDataDescriptor) : req[name] # respModify[name]}

getModifyFields_sentValue(req, respModify) ==
    IF IsNil(req) \/ IsNil(respModify)
    THEN Nil
    ELSE LET fields == [name \in ModifiedNames(Val(req), Val(respModify)) |->
                           FieldValue(name, Val(req)[name])]
         IN  IF DOMAIN fields = {} THEN Nil ELSE Some(fields)

getModifyFields_emptyMap(req, respModify) ==
    IF IsNil(req) \/ IsNil(respModify)
    THEN Nil
    ELSE Some([name \in ModifiedNames(Val(req), Val(respModify)) |->
                  FieldValue(name, Val(respModify)[name])])

getModifyFields(req, respModify) ==
    IF IsNil(req) \/ IsNil(respModify)
    THEN Nil
    ELSE LET fields == [name \in ModifiedNames(Val(req), Val(respModify)) |->
                           FieldValue(name, Val(respModify)[name])]
         IN  IF DOMAIN fields = {} THEN Nil ELSE Some(fields)

(***************************************************************************)
(* Bounds of the model.                                                     *)
(***************************************************************************)
\* longest explicit recipient list of a batch request
MaxRecv == 2
\* the directory holds at most this many full pages of user IDs
MaxFullPages == 1
\* the delivery backend may fail, or rewrite the envelope, only in the
\* first MaxFaultCalls submissions of a request; later ones are accepted
MaxFaultCalls == 2
\* most fields an acknowledged envelope differs in (diff engine inputs)
MaxChanged == 2

\* line 416: the page size of the send-to-all directory paging
showNumber == 500

\* goroutines that call getMsgDataDescriptor at the same time
MaxCallers == 2
\* calls each of them makes
MaxCallsEach == 2

(***************************************************************************)
(* State.                                                                   *)
(***************************************************************************)
VARIABLES
    handler,     \* the handler serving the request
    pc,          \* its position
    c,           \* the request context: caller, body and query of the call
    req,         \* the request struct the body binds to
    env,         \* the collaborators: directory size, clock, msg-ID salt
    recvIDs,     \* BatchSendMsg: the resolved recipients
    pageNumber,  \* BatchSendMsg: the directory page to request next
    idx,         \* BatchSendMsg: position of the range loop in recvIDs
    sendMsgReq,  \* the envelope built (optional MsgData)
    respPb,      \* the backend's reply to the last accepted submission
    resp,        \* BatchSendMsg: apistruct.BatchSendMsgResp
    out,         \* what the handler wrote to the caller
    hist,        \* the calls made to the collaborators so far
    msgDataDescriptor,      \* line 47: the package-level descriptor list
    msgDataDescriptorOnce,  \* line 48: the sync.Once guarding it
    callers      \* the goroutines calling getMsgDataDescriptor

onceVars == <<msgDataDescriptor, msgDataDescriptorOnce, callers>>

vars == <<handler, pc, c, req, env, recvIDs, pageNumber, idx, sendMsgReq,
          respPb, resp, out, hist, onceVars>>

(***************************************************************************)
(* msgDataDescriptorOnce (sync.Once): done is the flag Do loads and stores  *)
(* atomically, m the goroutine holding the mutex (0: unlocked); runs counts *)
(* the executions of the function passed to Do.                             *)
(***************************************************************************)
Goroutines == 1 .. MaxCallers

ZeroOnce == [done |-> FALSE, m |-> 0, runs |-> 0]

\* a caller: its position, the calls it has made, the locals of the
\* function passed to Do (skip, i), and what its last call returned
IdleCaller == [pc |-> "idle", calls |-> 0, skip |-> {}, i |-> 0, ret |-> Nil]

\* sync.Once.doSlow: o.m.Lock() goes through when the mutex is free
MutexFree_always(once) == TRUE

MutexFree(once) == once.m = 0

\* lines 241-248: getModifyFields calls getMsgDataDescriptor once both
\* envelopes are present; in a handler that serves one request the whole of
\* Do runs within the call
DescriptorLoaded(msgData, respModify) ==
    IF IsNil(msgData) \/ IsNil(respModify)
    THEN UNCHANGED <<msgDataDescriptor, msgDataDescriptorOnce, callers>>
    ELSE /\ msgDataDescriptor' = getMsgDataDescriptor
         /\ msgDataDescriptorOnce' = [done |-> TRUE, m |-> 0, runs |-> 1]
         /\ UNCHANGED callers

NoOut == [status |-> "none", err |-> "", modify |-> Nil]
GinError(err) == [status |-> "error", err |-> err, modify |-> Nil]
GinSuccess(modify) == [status |-> "success", err |-> "", modify |-> modify]

NoHist ==
    [pages |-> <<>>,       \* GetAllUserIDs calls: [page, n returned, ok]
     submits |-> <<>>,     \* SendMsg / SendSimpleMsg calls: [recvID, ok]
     lastSubmit |-> Nil,   \* the envelope of the last such call
     senderChecks |-> 0,   \* GetNotificationByID calls
     statusCalls |-> 0,    \* SetSendMsgStatus calls
     diffs |-> 0,          \* getModifyFields calls
     bound |-> FALSE,      \* whether c.BindJSON ran
     atCancel |-> Nil,     \* where the request was when c was cancelled
     decodes |-> 0,        \* mapstructure.WeakDecode calls
     built |-> Nil]        \* the envelope getSendMsgReq returned

NoResp == [Results |-> <<>>, FailedIDs |-> <<>>]
NoRespPb == [ServerMsgID |-> "", ClientMsgID |-> "", SendTime |-> 0,
             Modify |-> Nil]

(***************************************************************************)
(* The collaborators.                                                       *)
(***************************************************************************)
\* the directory lists the users "u1" .. "u<dirTotal>" in this order
DirUser(k) == "u" \o ToString(k)

\* userClient.GetAllUserIDs(page, size) of a directory of total users
GetAllUserIDs(total, page, size) ==
    LET first == (page - 1) * size
        n == IF total - first >= size THEN size
             ELSE IF total > first THEN total - first ELSE 0
    IN  [i \in 1..n |-> DirUser(first + i)]

\* what the backend may answer to an accepted envelope: no modification,
\* the envelope echoed, or the envelope with content, server ID and send
\* time rewritten
Rewritten(msgData) ==
    [msgData EXCEPT !.content = Bytes("{moderated}"),
                    !.serverMsgID = "srv1",
                    !.sendTime = env.now + 1]

Acks(msgData) ==
    {[ServerMsgID |-> "srv1", ClientMsgID |-> msgData.clientMsgID,
      SendTime |-> env.now + 1, Modify |-> m] :
        m \in {Nil, Some(msgData), Some(Rewritten(msgData))}}

PlainAck(msgData) ==
    [ServerMsgID |-> "srv1", ClientMsgID |-> msgData.clientMsgID,
     SendTime |-> env.now + 1, Modify |-> Nil]

\* a collaborator call is made with the request context c: once the context
\* is cancelled the call returns the context's error
CallErr(err) == IF c.cancelled THEN "Canceled" ELSE err

CallOks == IF c.cancelled THEN {FALSE} ELSE BOOLEAN

\* the outcomes of one submission: "" and a reply, or an error
SubmitOutcomes(msgData) ==
    IF c.cancelled
    THEN {[err |-> "Canceled", reply |-> NoRespPb]}
    ELSE IF Len(hist.submits) < MaxFaultCalls
    THEN {[err |-> "", reply |-> a] : a \in Acks(msgData)}
         \cup {[err |-> "ErrBackend", reply |-> NoRespPb]}
    ELSE {[err |-> "", reply |-> PlainAck(msgData)]}

\* authverify.IsAdmin(c) / authverify.CheckAdmin(c) == nil
IsAdmin_anyone(ctx) == TRUE

IsAdmin(ctx) == ctx.isAdmin

(***************************************************************************)
(* Requests.                                                                *)
(***************************************************************************)
SeqsUpTo(S, n) == UNION {[1..k -> S] : k \in 0..n}

Contents ==
    [json : {"{text:hi}"}, form : {"wellformed", "mistyped", "incomplete"},
     AtUserList : {<<"u3">>}]

ZeroContent == [json |-> "null", form |-> "incomplete", AtUserList |-> <<>>]

\* apistruct.SendMsg, zero value (what req holds when the body did not bind)
ZeroSendMsg ==
    [SendID |-> "", GroupID |-> "", SenderNickname |-> "",
     SenderFaceURL |-> "", SenderPlatformID |-> "", Content |-> ZeroContent,
     ContentType |-> "", SessionType |-> "", IsOnlineOnly |-> FALSE,
     NotOfflinePush |-> FALSE, SendTime |-> 0, OfflinePushInfo |-> Nil,
     Ex |-> ""]

\* the SendMsg parts of the requests the handlers are driven with
DispatchParams ==
    {p \in [SendID : {"u1"}, GroupID : {"", "g1"}, SenderNickname : {"nick"},
            SenderFaceURL : {""}, SenderPlatformID : {"ios"},
            Content : Contents,
            ContentType : {Text, AtText, OANotification, Location},
            SessionType : {SingleChatType}, IsOnlineOnly : BOOLEAN,
            NotOfflinePush : BOOLEAN, SendTime : {0, 7},
            OfflinePushInfo : {Nil}, Ex : {""}] :
        p.IsOnlineOnly = p.NotOfflinePush}

\* ... and of the send-to-all requests
BroadcastParams ==
    {p \in DispatchParams :
        /\ p.ContentType \in {Text, Location}
        /\ p.Content.form \in {"wellformed", "incomplete"}
        /\ p.GroupID = "" /\ p.SendTime = 0 /\ ~p.IsOnlineOnly}

Contexts ==
    [isAdmin : BOOLEAN, bodyOK : {TRUE}, opUserID : {"imAdmin"}, query : {Nil},
     cancelled : {FALSE}]

\* a directory of whole pages plus zero or one more user
DirTotals == {f * showNumber + r : f \in 0..MaxFullPages, r \in 0..1}

Envs == [dirTotal : {0}, now : {100}, salt : {"s1", "s2"}]

InitCommon ==
    /\ pc = "begin"
    /\ recvIDs = <<>>
    /\ pageNumber = 1
    /\ idx = 1
    /\ resp = NoResp
    /\ out = NoOut
    /\ hist = NoHist
    /\ msgDataDescriptor = <<>>
    /\ msgDataDescriptorOnce = ZeroOnce
    /\ callers = [g \in Goroutines |-> IdleCaller]

\* no envelope built, no reply received
InitNoEnvelope ==
    /\ sendMsgReq = Nil
    /\ respPb = NoRespPb

InitSendMessage ==
    /\ handler = "SendMessage"
    /\ env \in Envs
    /\ \/ /\ c \in Contexts
          /\ req \in [SendMsg : DispatchParams, RecvID : {"", "u2"}]
       \/ /\ c \in {[x EXCEPT !.bodyOK = FALSE] : x \in Contexts}
          /\ req = [SendMsg |-> ZeroSendMsg, RecvID |-> ""]

InitBatchSendMsg ==
    /\ handler = "BatchSendMsg"
    /\ \/ /\ c \in Contexts
          /\ env \in Envs
          /\ req \in [SendMsg : DispatchParams, IsSendAll : {FALSE},
                       RecvIDs : SeqsUpTo({"u1", "u2"}, MaxRecv)]
       \/ /\ c \in Contexts
          /\ env \in {[e EXCEPT !.dirTotal = t] :
                          e \in {x \in Envs : x.salt = "s1"}, t \in DirTotals}
          /\ req \in [SendMsg : BroadcastParams, IsSendAll : {TRUE},
                       RecvIDs : {<<>>}]
       \/ /\ c \in {[x EXCEPT !.bodyOK = FALSE] : x \in Contexts}
          /\ env \in Envs
          /\ req = [SendMsg |-> ZeroSendMsg, IsSendAll |-> FALSE,
                    RecvIDs |-> <<>>]

InitSendBusinessNotification ==
    /\ handler = "SendBusinessNotification"
    /\ env \in Envs
    /\ \/ /\ c \in Contexts
          /\ req \in [Key : {"k"}, Data : {"d"}, SendUserID : {"u1"},
                       RecvUserID : {"", "u2"}, RecvGroupID : {"", "g1"},
                       SendMsg : BOOLEAN, ReliabilityLevel : {Nil, Some(2)}]
       \/ /\ c \in {[x EXCEPT !.bodyOK = FALSE] : x \in Contexts}
          /\ req = [Key |-> "", Data |-> "", SendUserID |-> "",
                    RecvUserID |-> "", RecvGroupID |-> "", SendMsg |-> FALSE,
                    ReliabilityLevel |-> Nil]

\* apistruct.KeyMsgData, and the query parameter that carries it
ZeroKeyMsgData == [SendID |-> "", RecvID |-> "", GroupID |-> ""]

Queries ==
    {Nil}
    \cup {Some([base64OK |-> FALSE, jsonOK |-> FALSE,
                keyMsgData |-> ZeroKeyMsgData])}
    \cup {Some([base64OK |-> TRUE, jsonOK |-> FALSE,
                keyMsgData |-> ZeroKeyMsgData])}
    \cup {Some([base64OK |-> TRUE, jsonOK |-> TRUE, keyMsgData |-> k]) :
            k \in [SendID : {"", "u1"}, RecvID : {"", "u2"},
                   GroupID : {"", "g1"}]}

InitSendSimpleMessage ==
    /\ handler = "SendSimpleMessage"
    /\ env \in Envs
    /\ \E q \in Queries, a \in BOOLEAN :
          \/ /\ c = [isAdmin |-> a, bodyOK |-> TRUE, opUserID |-> "imAdmin",
                     query |-> q, cancelled |-> FALSE]
             /\ req \in [SendID : {"", "u3"}, Content : {"hello"},
                          OfflinePushInfo : {Nil}, Ex : {""}]
          \/ /\ c = [isAdmin |-> a, bodyOK |-> FALSE, opUserID |-> "imAdmin",
                     query |-> q, cancelled |-> FALSE]
             /\ req = [SendID |-> "", Content |-> "", OfflinePushInfo |-> Nil,
                       Ex |-> ""]

Init ==
    /\ InitCommon
    /\ InitNoEnvelope
    /\ \/ InitSendMessage
       \/ InitBatchSendMsg
       \/ InitSendBusinessNotification
       \/ InitSendSimpleMessage

(***************************************************************************)
(* Steps shared by the handlers.                                            *)
(***************************************************************************)
Fail(err) ==
    /\ out' = GinError(err)
    /\ pc' = "done"

\* getSendMsgReq, lines 205-230: the content-type switch, with the
\* sender-existence call of the OA notification case
GetSendMsgReq_Switch ==
    /\ pc = "getSendMsgReq"
    /\ LET p == req.SendMsg IN
         IF ElemOf(p.ContentType) = ""
         THEN /\ Fail("ErrArgs(unsupported content type)")
              /\ UNCHANGED hist
         ELSE IF p.ContentType = OANotification
         THEN /\ hist' = [hist EXCEPT !.senderChecks = @ + 1]
              /\ \E found \in CallOks :
                    IF found
                    THEN pc' = "decode" /\ UNCHANGED out
                    ELSE Fail(CallErr("ErrUnknownSender"))
         ELSE /\ pc' = "decode"
              /\ UNCHANGED <<out, hist>>
    /\ UNCHANGED <<onceVars, handler, c, req, env, recvIDs, pageNumber, idx,
                   sendMsgReq, respPb, resp>>

\* line 305: SendMessage addresses the envelope; BatchSendMsg does so per
\* recipient in its loop
Addressed(msgData) ==
    IF handler = "SendMessage"
    THEN [msgData EXCEPT !.recvID = req.RecvID]
    ELSE msgData

\* getSendMsgReq, lines 231-238: decode, validate, build
GetSendMsgReq_Decode ==
    /\ pc = "decode"
    /\ LET p == WithSessionType(req.SendMsg)
           msgData == newUserSendMsgReq(p, DecodedData(p), env.now, env.salt)
       IN
         IF WeakDecodeErr(p.Content)
         THEN /\ Fail("ErrDecode")
              /\ hist' = [hist EXCEPT !.decodes = @ + 1]
              /\ UNCHANGED sendMsgReq
         ELSE IF ValidateErr(p.Content)
         THEN /\ Fail("ErrValidation")
              /\ hist' = [hist EXCEPT !.decodes = @ + 1]
              /\ UNCHANGED sendMsgReq
         ELSE /\ sendMsgReq' = Some(Addressed(msgData))
              /\ hist' = [hist EXCEPT !.decodes = @ + 1,
                                      !.built = Some(msgData)]
              /\ pc' = IF handler = "SendMessage" THEN "submit" ELSE "loop"
              /\ UNCHANGED out
    /\ UNCHANGED <<onceVars, handler, c, req, env, recvIDs, pageNumber, idx, respPb,
                   resp>>

\* where a handler goes after its submission was accepted
AfterSubmit_noStatus(h) == "respond"

AfterSubmit(h) ==
    IF h = "SendBusinessNotification" THEN "respond" ELSE "setStatus"

\* Client.SendMsg / Client.SendSimpleMsg of the single-envelope handlers
Submit ==
    /\ pc = "submit"
    /\ \E o \in SubmitOutcomes(Val(sendMsgReq)) :
          /\ hist' = [hist EXCEPT
                        !.submits = Append(@, [recvID |-> Val(sendMsgReq).recvID,
                                                ok |-> o.err = ""]),
                        !.lastSubmit = sendMsgReq]
          /\ IF o.err # ""
             THEN Fail(o.err) /\ UNCHANGED respPb
             ELSE /\ respPb' = o.reply
                  /\ pc' = AfterSubmit(handler)
                  /\ UNCHANGED out
    /\ UNCHANGED <<onceVars, handler, c, req, env, recvIDs, pageNumber, idx,
                   sendMsgReq, resp>>

\* Client.SetSendMsgStatus, lines 319-327 and 534-541
SetSendMsgStatus ==
    /\ pc = "setStatus"
    /\ hist' = [hist EXCEPT !.statusCalls = @ + 1]
    /\ \E ok \in CallOks :
          IF ok THEN pc' = "respond" /\ UNCHANGED out
          ELSE Fail(CallErr("ErrBackend"))
    /\ UNCHANGED <<onceVars, handler, c, req, env, recvIDs, pageNumber, idx,
                   sendMsgReq, respPb, resp>>

\* ginRespSendMsg, lines 268-275
GinRespSendMsg ==
    /\ pc = "respond"
    /\ out' = GinSuccess(getModifyFields(sendMsgReq, respPb.Modify))
    /\ respPb' = [respPb EXCEPT !.Modify = Nil]
    /\ hist' = [hist EXCEPT !.diffs = @ + 1]
    /\ pc' = "done"
    /\ DescriptorLoaded(sendMsgReq, respPb.Modify)
    /\ UNCHANGED <<handler, c, req, env, recvIDs, pageNumber, idx,
                   sendMsgReq, resp>>

(***************************************************************************)
(* SendMessage, lines 278-331.                                              *)
(***************************************************************************)
SendMessage_Begin ==
    /\ handler = "SendMessage"
    /\ pc = "begin"
    /\ hist' = [hist EXCEPT !.bound = TRUE]
    /\ IF ~c.bodyOK THEN Fail("ErrArgs(body)")
       ELSE IF ~IsAdmin(c) THEN Fail("ErrNoPermission")
       ELSE pc' = "getSendMsgReq" /\ UNCHANGED out
    /\ UNCHANGED <<onceVars, handler, c, req, env, recvIDs, pageNumber, idx,
                   sendMsgReq, respPb, resp>>

(***************************************************************************)
(* SendBusinessNotification, lines 333-397.                                 *)
(***************************************************************************)
\* config.GetOptionsByNotification: the option map of the notification
\* policy, a value fixed by the policy's inputs
GetOptionsByNotification(isSendMsg, reliabilityLevel) ==
    [k \in {"notification.level" \o ToString(reliabilityLevel)} |-> isSendMsg]

\* lines 361-363: an absent reliability level defaults to 1
ReliabilityOf(level) == IF IsNil(level) THEN 1 ELSE Val(level)

\* lines 355-360 and 368-390
NotificationMsgData(r, ctx, now, salt) ==
    [ZeroMsgData EXCEPT
        !.sendID = r.SendUserID,
        !.recvID = r.RecvUserID,
        !.groupID = r.RecvGroupID,
        !.content = Bytes(NotificationElemJson(
                        "{key:" \o r.Key \o ",data:" \o r.Data \o "}")),
        !.msgFrom = SysMsgType,
        !.contentType = BusinessNotification,
        !.sessionType = IF r.RecvUserID # "" THEN SingleChatType
                        ELSE ReadGroupChatType,
        !.createTime = now,
        !.clientMsgID = GetMsgIDByMD5(ctx.opUserID, salt),
        !.options = GetOptionsByNotification(r.SendMsg,
                        ReliabilityOf(r.ReliabilityLevel))]

SendBusinessNotification_Begin ==
    /\ handler = "SendBusinessNotification"
    /\ pc = "begin"
    /\ hist' = [hist EXCEPT !.bound = TRUE]
    /\ IF ~c.bodyOK
       THEN Fail("ErrArgs(body)") /\ UNCHANGED sendMsgReq
       ELSE IF req.RecvUserID = "" /\ req.RecvGroupID = ""
       THEN Fail("ErrArgs(recvUserID and recvGroupID both empty)")
            /\ UNCHANGED sendMsgReq
       ELSE IF req.RecvUserID # "" /\ req.RecvGroupID # ""
       THEN Fail("ErrArgs(recvUserID and recvGroupID both set)")
            /\ UNCHANGED sendMsgReq
       ELSE IF ~IsAdmin(c)
       THEN Fail("ErrNoPermission") /\ UNCHANGED sendMsgReq
       ELSE /\ sendMsgReq' =
                  Some(NotificationMsgData(req, c, env.now, env.salt))
            /\ pc' = "submit"
            /\ UNCHANGED out
    /\ UNCHANGED <<onceVars, handler, c, req, env, recvIDs, pageNumber, idx, respPb,
                   resp>>

(***************************************************************************)
(* BatchSendMsg, lines 399-454.                                             *)
(***************************************************************************)
BatchSendMsg_Begin ==
    /\ handler = "BatchSendMsg"
    /\ pc = "begin"
    /\ hist' = [hist EXCEPT !.bound = TRUE]
    /\ IF ~c.bodyOK
       THEN Fail("ErrArgs(body)") /\ UNCHANGED recvIDs
       ELSE IF ~IsAdmin(c)
       THEN Fail("ErrNoPermission") /\ UNCHANGED recvIDs
       ELSE IF req.IsSendAll
       THEN pc' = "page" /\ UNCHANGED <<out, recvIDs>>
       ELSE /\ recvIDs' = req.RecvIDs
            /\ pc' = "getSendMsgReq"
            /\ UNCHANGED out
    /\ UNCHANGED <<onceVars, handler, c, req, env, pageNumber, idx, sendMsgReq, respPb,
                   resp>>

\* line 424: a page shorter than the page size ends the paging
IsLastPage_orFull(part) == Len(part) <= showNumber

IsLastPage(part) == Len(part) < showNumber

\* line 423
AppendPage_replace(ids, part) == part

AppendPage(ids, part) == ids \o part

\* lines 417-428: one turn of the paging loop
BatchSendMsg_Page ==
    /\ pc = "page"
    /\ \/ LET part == GetAllUserIDs(env.dirTotal, pageNumber, showNumber) IN
            /\ ~c.cancelled
            /\ hist' = [hist EXCEPT !.pages =
                          Append(@, [page |-> pageNumber, n |-> Len(part),
                                     ok |-> TRUE])]
            /\ recvIDs' = AppendPage(recvIDs, part)
            /\ IF IsLastPage(part)
               THEN pc' = "getSendMsgReq" /\ UNCHANGED pageNumber
               ELSE pageNumber' = pageNumber + 1 /\ UNCHANGED pc
            /\ UNCHANGED out
       \/ /\ hist' = [hist EXCEPT !.pages =
                          Append(@, [page |-> pageNumber, n |-> 0,
                                     ok |-> FALSE])]
          /\ Fail(CallErr("ErrDirectory"))
          /\ UNCHANGED <<recvIDs, pageNumber>>
    /\ UNCHANGED <<onceVars, handler, c, req, env, idx, sendMsgReq, respPb, resp>>

\* line 443: after a failed submission the loop goes on to the next
\* recipient
NextAfterFailure_break(i, n) == n + 1

NextAfterFailure(i, n) == i + 1

SingleReturnResult_staleEnvelope(rpcResp, recvID, msgData) ==
    [ServerMsgID |-> rpcResp.ServerMsgID,
     ClientMsgID |-> rpcResp.ClientMsgID,
     SendTime |-> rpcResp.SendTime,
     RecvID |-> recvID,
     Modify |-> getModifyFields(Some([Val(msgData) EXCEPT !.recvID = ""]),
                                rpcResp.Modify)]

\* lines 445-451
SingleReturnResult(rpcResp, recvID, msgData) ==
    [ServerMsgID |-> rpcResp.ServerMsgID,
     ClientMsgID |-> rpcResp.ClientMsgID,
     SendTime |-> rpcResp.SendTime,
     RecvID |-> recvID,
     Modify |-> getModifyFields(msgData, rpcResp.Modify)]

\* lines 438-452: one turn of the loop over the recipients
BatchSendMsg_Send ==
    /\ pc = "loop"
    /\ idx <= Len(recvIDs)
    /\ LET recvID == recvIDs[idx]
           msgData == Some([Val(sendMsgReq) EXCEPT !.recvID = recvID])
       IN  /\ sendMsgReq' = msgData
           /\ \E o \in SubmitOutcomes(Val(msgData)) :
                 IF o.err # ""
                 THEN /\ resp' = [resp EXCEPT
                                    !.FailedIDs = Append(@, recvID)]
                      /\ idx' = NextAfterFailure(idx, Len(recvIDs))
                      /\ hist' = [hist EXCEPT
                                    !.submits = Append(@, [recvID |-> recvID,
                                                            ok |-> FALSE]),
                                    !.lastSubmit = msgData]
                      /\ UNCHANGED <<respPb, msgDataDescriptor,
                                     msgDataDescriptorOnce>>
                 ELSE /\ resp' = [resp EXCEPT
                                    !.Results = Append(@,
                                        SingleReturnResult(o.reply, recvID,
                                                           msgData))]
                      /\ idx' = idx + 1
                      /\ hist' = [hist EXCEPT
                                    !.submits = Append(@, [recvID |-> recvID,
                                                            ok |-> TRUE]),
                                    !.lastSubmit = msgData,
                                    !.diffs = @ + 1]
                      /\ respPb' = o.reply
                      /\ DescriptorLoaded(msgData, o.reply.Modify)
    /\ UNCHANGED <<handler, pc, c, req, env, recvIDs, pageNumber, out,
                   callers>>

\* line 453
BatchSendMsg_Respond ==
    /\ pc = "loop"
    /\ idx > Len(recvIDs)
    /\ out' = GinSuccess(Nil)
    /\ pc' = "done"
    /\ UNCHANGED <<onceVars, handler, c, req, env, recvIDs, pageNumber, idx,
                   sendMsgReq, respPb, resp, hist>>

(***************************************************************************)
(* SendSimpleMessage, lines 456-549.                                        *)
(***************************************************************************)
\* lines 485-492: the sender and recipient the key and the body give
SimpleSendID(k, r) == IF k.GroupID # "" THEN r.SendID ELSE k.RecvID
SimpleRecvID(k) == IF k.GroupID # "" THEN "" ELSE k.SendID

\* lines 503-520
SimpleMsgData(k, r, salt) ==
    [ZeroMsgData EXCEPT
        !.sendID = SimpleSendID(k, r),
        !.recvID = SimpleRecvID(k),
        !.groupID = k.GroupID,
        !.clientMsgID = GetMsgIDByMD5(SimpleSendID(k, r), salt),
        !.senderPlatformID = AdminPlatformID,
        !.sessionType = IF k.GroupID # "" THEN ReadGroupChatType
                        ELSE SingleChatType,
        !.msgFrom = UserMsgType,
        !.contentType = MarkdownText,
        !.content = Bytes("{content:" \o r.Content \o "}"),
        !.offlinePushInfo = r.OfflinePushInfo,
        !.ex = r.Ex]

\* lines 457-524: everything up to the submission
SendSimpleMessage_Begin ==
    /\ handler = "SendSimpleMessage"
    /\ pc = "begin"
    /\ IF IsNil(c.query)
       THEN /\ Fail("ErrArgs(missing key in query)")
            /\ UNCHANGED <<hist, sendMsgReq>>
       ELSE IF ~Val(c.query).base64OK
       THEN /\ Fail("ErrArgs(key base64)")
            /\ UNCHANGED <<hist, sendMsgReq>>
       ELSE /\ hist' = [hist EXCEPT !.bound = TRUE]
            /\ LET k == Val(c.query).keyMsgData IN
                 IF ~c.bodyOK
                 THEN Fail("ErrArgs(body)") /\ UNCHANGED sendMsgReq
                 ELSE IF ~Val(c.query).jsonOK
                 THEN Fail("ErrArgs(key json)") /\ UNCHANGED sendMsgReq
                 ELSE IF k.SendID = ""
                 THEN Fail("ErrArgs(missing recvID or GroupID)")
                      /\ UNCHANGED sendMsgReq
                 ELSE IF SimpleSendID(k, req) = ""
                 THEN Fail("ErrArgs(missing sendID)")
                      /\ UNCHANGED sendMsgReq
                 ELSE /\ sendMsgReq' = Some(SimpleMsgData(k, req, env.salt))
                      /\ pc' = "submit"
                      /\ UNCHANGED out
    /\ UNCHANGED <<onceVars, handler, c, req, env, recvIDs, pageNumber, idx, respPb,
                   resp>>

(***************************************************************************)
(* The request context c is cancelled (the caller went away, a deadline     *)
(* passed) while a handler serves the request.  The handlers pass c to      *)
(* every collaborator call and never look at it themselves.  As the backend *)
(* faults, a cancellation falls within the first MaxFaultCalls submissions. *)
(***************************************************************************)
Handlers ==
    {"SendMessage", "SendBusinessNotification", "BatchSendMsg",
     "SendSimpleMessage"}

Cancel ==
    /\ handler \in Handlers
    /\ pc # "done"
    /\ ~c.cancelled
    /\ Len(hist.submits) < MaxFaultCalls
    /\ c' = [c EXCEPT !.cancelled = TRUE]
    /\ hist' = [hist EXCEPT !.atCancel =
                   Some([pc |-> pc, idx |-> idx, submits |-> Len(hist.submits)])]
    /\ UNCHANGED <<onceVars, handler, pc, req, env, recvIDs, pageNumber, idx,
                   sendMsgReq, respPb, resp, out>>

Next ==
    \/ Cancel
    \/ SendMessage_Begin
    \/ SendBusinessNotification_Begin
    \/ BatchSendMsg_Begin
    \/ BatchSendMsg_Page
    \/ GetSendMsgReq_Switch
    \/ GetSendMsgReq_Decode
    \/ BatchSendMsg_Send
    \/ BatchSendMsg_Respond
    \/ SendSimpleMessage_Begin
    \/ Submit
    \/ SetSendMsgStatus
    \/ GinRespSendMsg

Spec == Init /\ [][Next]_vars

(***************************************************************************)
(* newUserSendMsgReq on its own: every content type, both toggles, both     *)
(* kinds of decoded element.                                                *)
(***************************************************************************)
ContentTypes ==
    {Text, Picture, Voice, Video, File, AtText, Custom, MarkdownText,
     OANotification, BusinessNotification, Location}

BuildParams ==
    [SendID : {"u1"}, GroupID : {"", "g1"}, SenderNickname : {"nick"},
     SenderFaceURL : {""}, SenderPlatformID : {"ios"},
     Content : {c0 \in Contents : c0.form = "wellformed"},
     ContentType : ContentTypes,
     SessionType : {SingleChatType, ReadGroupChatType},
     IsOnlineOnly : BOOLEAN, NotOfflinePush : BOOLEAN, SendTime : {0, 7},
     OfflinePushInfo : {Nil}, Ex : {""}]

InitBuild ==
    /\ InitCommon
    /\ InitNoEnvelope
    /\ handler = "newUserSendMsgReq"
    /\ c \in Contexts
    /\ env \in {e \in Envs : e.salt = "s1"}
    /\ req \in [SendMsg : BuildParams,
                 data : [elem : {"TextElem", "AtElem"},
                         AtUserList : {<<"u3">>}]]

NewUserSendMsgReq ==
    /\ handler = "newUserSendMsgReq"
    /\ pc = "begin"
    /\ sendMsgReq' = Some(newUserSendMsgReq(req.SendMsg, req.data, env.now,
                                            env.salt))
    /\ pc' = "built"
    /\ UNCHANGED <<onceVars, handler, c, req, env, recvIDs, pageNumber, idx, respPb,
                   resp, out, hist>>

NextBuild == NewUserSendMsgReq

SpecBuild == InitBuild /\ [][NextBuild]_vars

(***************************************************************************)
(* getModifyFields on its own: a sent envelope (or none) against an         *)
(* acknowledged envelope (or none) that differs from it in at most          *)
(* MaxChanged fields.                                                       *)
(***************************************************************************)
\* a value of the field's type other than val
Altered(name, val) ==
    CASE name \in {"seq", "sendTime", "createTime", "status"} -> val + 1
      [] name = "isRead" -> ~val
      [] name = "content" -> Bytes(BytesToString(val) \o "*")
      [] name = "options" -> SetSwitchFromOptions(val, "backend.added", TRUE)
      [] name = "offlinePushInfo" -> IF IsNil(val) THEN Some("push") ELSE Nil
      [] name = "atUserIDList" -> Append(val, "u9")
      [] OTHER -> val \o "*"

AlteredIn(msgData, names) ==
    [name \in DOMAIN msgData |->
        IF name \in names THEN Altered(name, msgData[name])
        ELSE msgData[name]]

RECURSIVE SubsetsUpTo(_, _)
SubsetsUpTo(S, n) ==
    IF n = 0 THEN {{}}
    ELSE LET smaller == SubsetsUpTo(S, n - 1)
         IN  smaller \cup {x \cup {e} : x \in smaller, e \in S}

SentEnvelopes ==
    {[newUserSendMsgReq(p, DecodedData(p), 100, "s1") EXCEPT !.recvID = "u2"] :
        p \in {x \in DispatchParams :
                  /\ x.ContentType \in {Text, OANotification}
                  /\ x.Content.form = "wellformed"
                  /\ x.GroupID = "" /\ x.SendTime = 7}}

InitDiff ==
    /\ InitCommon
    /\ handler = "getModifyFields"
    /\ c \in {x \in Contexts : x.isAdmin}
    /\ env \in {e \in Envs : e.salt = "s1"}
    /\ req = [SendMsg |-> ZeroSendMsg]
    /\ \E sent \in {Nil} \cup {Some(e) : e \in SentEnvelopes} :
          /\ sendMsgReq = sent
          /\ \E names \in SubsetsUpTo(Range(MsgDataFields), MaxChanged) :
                \E ack \in {Nil, Some(AlteredIn(
                                 IF IsNil(sent) THEN ZeroMsgData ELSE Val(sent),
                                 names))} :
                   respPb = [NoRespPb EXCEPT !.Modify = ack]

GetModifyFields ==
    /\ handler = "getModifyFields"
    /\ pc = "begin"
    /\ out' = [status |-> "returned", err |-> "",
               modify |-> getModifyFields(sendMsgReq, respPb.Modify)]
    /\ hist' = [hist EXCEPT !.diffs = @ + 1]
    /\ pc' = "diffed"
    /\ DescriptorLoaded(sendMsgReq, respPb.Modify)
    /\ UNCHANGED <<handler, c, req, env, recvIDs, pageNumber, idx,
                   sendMsgReq, respPb, resp>>

NextDiff == GetModifyFields

SpecDiff == InitDiff /\ [][NextDiff]_vars

(***************************************************************************)
(* getMsgDataDescriptor called by several goroutines at once (lines 51-77). *)
(* sync.Once.Do: load done; if it is not set, lock the mutex, load done     *)
(* again, run the function, store done, unlock.                             *)
(***************************************************************************)
InitOnce ==
    /\ InitCommon
    /\ InitNoEnvelope
    /\ handler = "getMsgDataDescriptor"
    /\ c \in {x \in Contexts : x.isAdmin}
    /\ env \in {e \in Envs : e.salt = "s1"}
    /\ req = [SendMsg |-> ZeroSendMsg]

SetCaller(g, caller) ==
    /\ callers' = [callers EXCEPT ![g] = caller]
    /\ UNCHANGED <<handler, pc, c, req, env, recvIDs, pageNumber, idx,
                   sendMsgReq, respPb, resp, out, hist>>

\* line 52, Do: the fast path
Once_Load(g) ==
    /\ handler = "getMsgDataDescriptor"
    /\ callers[g].pc = "idle"
    /\ callers[g].calls < MaxCallsEach
    /\ SetCaller(g, [callers[g] EXCEPT
                        !.calls = @ + 1,
                        !.ret = Nil,
                        !.pc = IF msgDataDescriptorOnce.done
                               THEN "return" ELSE "lock"])
    /\ UNCHANGED <<msgDataDescriptor, msgDataDescriptorOnce>>

\* line 52, doSlow: o.m.Lock()
Once_Lock(g) ==
    /\ callers[g].pc = "lock"
    /\ MutexFree(msgDataDescriptorOnce)
    /\ msgDataDescriptorOnce' = [msgDataDescriptorOnce EXCEPT !.m = g]
    /\ SetCaller(g, [callers[g] EXCEPT !.pc = "check"])
    /\ UNCHANGED msgDataDescriptor

\* line 52, doSlow: the second load of done, under the mutex
Once_Check(g) ==
    /\ callers[g].pc = "check"
    /\ IF msgDataDescriptorOnce.done
       THEN /\ SetCaller(g, [callers[g] EXCEPT !.pc = "unlock"])
            /\ UNCHANGED msgDataDescriptorOnce
       ELSE /\ SetCaller(g, [callers[g] EXCEPT !.pc = "skip"])
            /\ msgDataDescriptorOnce' =
                   [msgDataDescriptorOnce EXCEPT !.runs = @ + 1]
    /\ UNCHANGED msgDataDescriptor

\* lines 53-64: the skip set, then the empty list
Descriptor_Skip(g) ==
    /\ callers[g].pc = "skip"
    /\ msgDataDescriptor' = <<>>
    /\ SetCaller(g, [callers[g] EXCEPT !.pc = "fields", !.i = 1,
                                       !.skip = Range(SendMsgRespFields)])
    /\ UNCHANGED msgDataDescriptorOnce

\* lines 65-74: one turn of the loop over the MsgData fields
Descriptor_Field(g) ==
    /\ callers[g].pc = "fields"
    /\ callers[g].i <= Len(MsgDataFields)
    /\ LET name == MsgDataFields[callers[g].i]
       IN  msgDataDescriptor' = IF name \in callers[g].skip
                                THEN msgDataDescriptor
                                ELSE Append(msgDataDescriptor, name)
    /\ SetCaller(g, [callers[g] EXCEPT !.i = @ + 1])
    /\ UNCHANGED msgDataDescriptorOnce

\* line 75, doSlow: the function has returned, the deferred store of done
Once_Store(g) ==
    /\ callers[g].pc = "fields"
    /\ callers[g].i > Len(MsgDataFields)
    /\ msgDataDescriptorOnce' = [msgDataDescriptorOnce EXCEPT !.done = TRUE]
    /\ SetCaller(g, [callers[g] EXCEPT !.pc = "unlock"])
    /\ UNCHANGED msgDataDescriptor

\* line 75, doSlow: the deferred o.m.Unlock()
Once_Unlock(g) ==
    /\ callers[g].pc = "unlock"
    /\ msgDataDescriptorOnce' = [msgDataDescriptorOnce EXCEPT !.m = 0]
    /\ SetCaller(g, [callers[g] EXCEPT !.pc = "return"])
    /\ UNCHANGED msgDataDescriptor

\* line 76: return msgDataDescriptor
Descriptor_Return(g) ==
    /\ callers[g].pc = "return"
    /\ SetCaller(g, [callers[g] EXCEPT !.pc = "idle",
                                       !.ret = Some(msgDataDescriptor)])
    /\ UNCHANGED <<msgDataDescriptor, msgDataDescriptorOnce>>

NextOnce ==
    \E g \in Goroutines :
       \/ Once_Load(g)
       \/ Once_Lock(g)
       \/ Once_Check(g)
       \/ Descriptor_Skip(g)
       \/ Descriptor_Field(g)
       \/ Once_Store(g)
       \/ Once_Unlock(g)
       \/ Descriptor_Return(g)

SpecOnce == InitOnce /\ [][NextOnce]_vars

(***************************************************************************)
(* Properties of the envelope builder (under SpecBuild).                    *)
(***************************************************************************)
PersistenceKeys == {IsHistory, IsPersistent, IsSenderSync, IsConversationUpdate}
Restrict(f, S) == [k \in DOMAIN f \cap S |-> f[k]]
Built == handler = "newUserSendMsgReq" /\ pc = "built"
OptionsFor(params) ==
    newUserSendMsgReq(params, req.data, env.now, env.salt).options

\* C7: in the envelope newUserSendMsgReq builds, IsOnlineOnly forces the
\* history, persistent, sender-sync and conversation-update switches to
\* false whatever the other inputs are, NotOfflinePush forces the
\* offline-push switch to false, and flipping one toggle leaves the switches
\* of the other as they are.
C7_TogglesForceSwitchesOff ==
    Built =>
        LET p == req.SendMsg
            o == Val(sendMsgReq).options
        IN  /\ p.IsOnlineOnly =>
                  \A k \in PersistenceKeys : k \in DOMAIN o /\ o[k] = FALSE
            /\ p.NotOfflinePush =>
                  IsOfflinePush \in DOMAIN o /\ o[IsOfflinePush] = FALSE
            /\ Restrict(o, PersistenceKeys) =
                  Restrict(OptionsFor([p EXCEPT !.NotOfflinePush = ~@]),
                           PersistenceKeys)
            /\ Restrict(o, {IsOfflinePush}) =
                  Restrict(OptionsFor([p EXCEPT !.IsOnlineOnly = ~@]),
                           {IsOfflinePush})

C7_Witness ==
    /\ Built
    /\ req.SendMsg.IsOnlineOnly
    /\ req.SendMsg.NotOfflinePush
    /\ req.SendMsg.ContentType = OANotification
    /\ DOMAIN Val(sendMsgReq).options = PersistenceKeys \cup {IsOfflinePush}

\* C8: an option key is written only when the caller asks for other than
\* the default: no toggle, no key; the offline-push key is there exactly
\* when NotOfflinePush is set, the four persistence keys exactly when
\* IsOnlineOnly is set; no key is ever written as true.
C8_KeysOnlyWhenAsked ==
    Built =>
        LET p == req.SendMsg
            o == Val(sendMsgReq).options
        IN  /\ (~p.IsOnlineOnly /\ ~p.NotOfflinePush) => DOMAIN o = {}
            /\ (IsOfflinePush \in DOMAIN o) <=> p.NotOfflinePush
            /\ \A k \in PersistenceKeys : (k \in DOMAIN o) <=> p.IsOnlineOnly
            /\ DOMAIN o \subseteq PersistenceKeys \cup {IsOfflinePush}
            /\ \A k \in DOMAIN o : o[k] = FALSE

C8_Witness ==
    /\ Built
    /\ ~req.SendMsg.IsOnlineOnly
    /\ req.SendMsg.NotOfflinePush
    /\ DOMAIN Val(sendMsgReq).options = {IsOfflinePush}

(***************************************************************************)
(* Properties of the diff engine (under SpecDiff).                          *)
(***************************************************************************)
Diffed == handler = "getModifyFields" /\ pc = "diffed"
\* the envelope fields whose JSON name is also one of the acknowledgment
AckExclusion == Range(MsgDataFields) \cap Range(SendMsgRespFields)

\* C9: the diff getModifyFields returns never has a key of the
\* acknowledgment-exclusion set (serverMsgID, clientMsgID, sendTime), also
\* when the sent and the acknowledged envelope differ in such a field.
C9_ExcludedNeverReported ==
    /\ AckExclusion = {"serverMsgID", "clientMsgID", "sendTime"}
    /\ (Diffed /\ ~IsNil(out.modify)) =>
          DOMAIN Val(out.modify) \cap AckExclusion = {}

C9_Witness ==
    /\ Diffed
    /\ ~IsNil(sendMsgReq) /\ ~IsNil(respPb.Modify)
    /\ Val(sendMsgReq).sendTime # Val(respPb.Modify).sendTime
    /\ Val(sendMsgReq).content # Val(respPb.Modify).content
    /\ out.modify = Some([content |-> BytesToString(Val(respPb.Modify).content)])

\* C10: diffing an envelope against an acknowledged envelope equal to it in
\* every field returns nil, not an empty map.
C10_EchoGivesNil ==
    (Diffed /\ ~IsNil(sendMsgReq) /\ respPb.Modify = sendMsgReq) =>
        IsNil(out.modify)

C10_Witness ==
    /\ Diffed
    /\ ~IsNil(sendMsgReq)
    /\ respPb.Modify = sendMsgReq
    /\ Val(sendMsgReq).contentType = OANotification
    /\ out.modify = Nil

\* the fields outside the exclusion set in which two envelopes differ
Differing(sent, ack) ==
    {name \in Range(MsgDataFields) \ AckExclusion : sent[name] # ack[name]}

\* C11: for a sent and an acknowledged envelope, both present, the keys of
\* the diff getModifyFields returns are exactly the fields outside the
\* exclusion set in which the two differ (nil when there is none), and the
\* value under each key is the acknowledged one, never the sent one; the
\* acknowledged content bytes are recorded as their text.
C11_DiffIsExactlyTheChanges ==
    (Diffed /\ ~IsNil(sendMsgReq) /\ ~IsNil(respPb.Modify)) =>
        LET sent == Val(sendMsgReq)
            ack == Val(respPb.Modify)
        IN  IF Differing(sent, ack) = {}
            THEN IsNil(out.modify)
            ELSE /\ ~IsNil(out.modify)
                 /\ DOMAIN Val(out.modify) = Differing(sent, ack)
                 /\ \A name \in Differing(sent, ack) :
                       Val(out.modify)[name] =
                           IF name = "content" THEN ack.content[2]
                           ELSE ack[name]

C11_Witness ==
    /\ Diffed
    /\ ~IsNil(sendMsgReq) /\ ~IsNil(respPb.Modify)
    /\ Differing(Val(sendMsgReq), Val(respPb.Modify)) = {"content", "options"}
    /\ ~IsNil(out.modify)
    /\ DOMAIN Val(out.modify) = {"content", "options"}

(***************************************************************************)
(* Properties of the descriptor cache (under SpecOnce).                     *)
(***************************************************************************)
Building == {g \in Goroutines : callers[g].pc \in {"skip", "fields"}}

\* C12: however the concurrent callers of getMsgDataDescriptor interleave,
\* the function that builds the descriptor list runs at most once, every
\* list a caller gets back is the complete list, and once the
\* initialisation has completed the list stays the complete list and no
\* goroutine is building it.
C12_DescriptorWrittenOnce ==
    /\ msgDataDescriptorOnce.runs <= 1
    /\ \A g \in Goroutines :
          ~IsNil(callers[g].ret) =>
              Val(callers[g].ret) = getMsgDataDescriptor
    /\ msgDataDescriptorOnce.done =>
          /\ msgDataDescriptor = getMsgDataDescriptor
          /\ Building = {}

\* one goroutine has its list back while another, which found the flag
\* unset on the fast path, finds it set under the mutex
C12_Witness ==
    \E g, h \in Goroutines :
       /\ g # h
       /\ ~IsNil(callers[g].ret)
       /\ callers[h].pc = "unlock"
       /\ callers[h].i = 0
       /\ msgDataDescriptorOnce.m = h

(***************************************************************************)
(* Properties of the handlers (under Spec).                                 *)
(***************************************************************************)
Batch == handler = "BatchSendMsg"
Accepted == SelectSeq(hist.submits, LAMBDA s : s.ok)
Refused == SelectSeq(hist.submits, LAMBDA s : ~s.ok)
RecvIDsOf(calls) == [i \in 1..Len(calls) |-> calls[i].recvID]
ResultRecvIDs == [i \in 1..Len(resp.Results) |-> resp.Results[i].RecvID]

\* C1: in BatchSendMsg the submissions made so far are for the recipients
\* in list order, one each; FailedIDs is the recipients whose submission
\* failed and Results the recipients whose submission succeeded, both in
\* list order; and the success response is written only after every
\* recipient had its submission, whatever failed before.
C1_BatchPartialFailure ==
    Batch =>
        /\ Len(hist.submits) <= Len(recvIDs)
        /\ RecvIDsOf(hist.submits) = SubSeq(recvIDs, 1, Len(hist.submits))
        /\ resp.FailedIDs = RecvIDsOf(Refused)
        /\ ResultRecvIDs = RecvIDsOf(Accepted)
        /\ out.status = "success" => Len(hist.submits) = Len(recvIDs)

C1_Witness ==
    /\ Batch
    /\ pc = "done"
    /\ out.status = "success"
    /\ recvIDs = <<"u1", "u2">>
    /\ resp.FailedIDs = <<"u1">>
    /\ ResultRecvIDs = <<"u2">>
    /\ RecvIDsOf(hist.submits) = <<"u1", "u2">>

\* C2: in BatchSendMsg with IsSendAll the i-th page request asks for page
\* i, every request but the last one made got a full page (so none follows
\* a short page or an error, and there are at most dirTotal / 500 + 1 of
\* them), the recipient list is the returned pages one after the other,
\* and paging is left only with a short page: the list is then the whole
\* directory.
C2_PagingTerminates ==
    (Batch /\ req.IsSendAll) =>
        LET pg == hist.pages IN
        /\ \A i \in 1..Len(pg) : pg[i].page = i
        /\ \A i \in 1..(Len(pg) - 1) : pg[i].ok /\ pg[i].n = showNumber
        /\ Len(pg) <= (env.dirTotal \div showNumber) + 1
        /\ pc \in {"page", "getSendMsgReq"} =>
              /\ Len(recvIDs) = (IF pg = <<>> THEN 0
                                 ELSE (Len(pg) - 1) * showNumber + pg[Len(pg)].n)
              /\ \A k \in 1..Len(recvIDs) : recvIDs[k] = DirUser(k)
        /\ (pc \notin {"begin", "page"} /\ pg # <<>> /\ pg[Len(pg)].ok) =>
              /\ pg[Len(pg)].n < showNumber
              /\ Len(recvIDs) = env.dirTotal

C2_Witness ==
    /\ Batch
    /\ req.IsSendAll
    /\ pc = "getSendMsgReq"
    /\ env.dirTotal = showNumber
    /\ hist.pages = <<[page |-> 1, n |-> showNumber, ok |-> TRUE],
                      [page |-> 2, n |-> 0, ok |-> TRUE]>>
    /\ Len(recvIDs) = showNumber

PrivilegedHandlers ==
    {"SendMessage", "BatchSendMsg", "SendBusinessNotification"}
NoCollaboratorCall ==
    /\ hist.pages = <<>>
    /\ hist.submits = <<>>
    /\ hist.senderChecks = 0
    /\ hist.statusCalls = 0
\* the request passes the checks the handler makes before the privilege one
ReachesPrivilegeCheck ==
    /\ c.bodyOK
    /\ handler = "SendBusinessNotification" =>
          (req.RecvUserID = "") # (req.RecvGroupID = "")

\* C3 as stated: a caller that is not privileged gets PermissionDenied from
\* SendMessage, BatchSendMsg and SendBusinessNotification, and no
\* collaborator is called for it.
C3_UnprivilegedGetsPermissionDenied ==
    (handler \in PrivilegedHandlers /\ ~c.isAdmin) =>
        /\ NoCollaboratorCall
        /\ pc = "done" => out = GinError("ErrNoPermission")

\* C3 as amended: for a caller that is not privileged no collaborator is
\* ever called and the handler ends in an error; the error is
\* PermissionDenied when the body binds and, for SendBusinessNotification,
\* exactly one of recvUserID and recvGroupID is set, and the argument error
\* of that earlier check otherwise.
C3_UnprivilegedNeverServed ==
    (handler \in PrivilegedHandlers /\ ~c.isAdmin) =>
        /\ NoCollaboratorCall
        /\ IsNil(sendMsgReq)
        /\ pc \in {"begin", "done"}
        /\ pc = "done" =>
              /\ out.status = "error"
              /\ ReachesPrivilegeCheck <=> out.err = "ErrNoPermission"

C3_Witness ==
    /\ Batch
    /\ ~c.isAdmin
    /\ c.bodyOK
    /\ req.IsSendAll
    /\ env.dirTotal > 0
    /\ pc = "done"
    /\ out = GinError("ErrNoPermission")
    /\ NoCollaboratorCall

\* C4: when the routing key of SendSimpleMessage is malformed (bad base64,
\* or bad JSON inside) and the body would not bind either, the handler
\* fails with the error of the key and the body was never bound.
C4_RoutingKeyErrorBeforeBody ==
    (/\ handler = "SendSimpleMessage"
     /\ pc = "done"
     /\ ~IsNil(c.query)
     /\ ~(Val(c.query).base64OK /\ Val(c.query).jsonOK)
     /\ ~c.bodyOK) =>
        /\ out.err \in {"ErrArgs(key base64)", "ErrArgs(key json)"}
        /\ ~hist.bound

\* C5: SendMessage never answers with an error after the backend accepted
\* the envelope.
C5_NoErrorAfterAccepted ==
    (handler = "SendMessage" /\ out.status = "error") => Accepted = <<>>

PreparationErrors ==
    {"ErrArgs(unsupported content type)", "ErrUnknownSender", "ErrDecode",
     "ErrValidation"}

\* C6: a send goes through decoding, validation and building before any
\* submission, and is diffed only after its submission was accepted: no
\* submission and no envelope when getSendMsgReq failed, a submission only
\* for content that is of a supported type, decodes and validates, one diff
\* per accepted submission and none for a refused one; in BatchSendMsg a
\* refused recipient has no result entry and the later recipients are still
\* submitted.
C6_StagesInOrder ==
    /\ out.err \in PreparationErrors =>
          /\ hist.submits = <<>>
          /\ hist.diffs = 0
          /\ IsNil(sendMsgReq)
    /\ (handler \in {"SendMessage", "BatchSendMsg"} /\ hist.submits # <<>>) =>
          /\ ElemOf(req.SendMsg.ContentType) # ""
          /\ req.SendMsg.Content.form = "wellformed"
          /\ req.SendMsg.ContentType = OANotification => hist.senderChecks = 1
          /\ hist.lastSubmit = sendMsgReq
    /\ handler \in {"SendMessage", "BatchSendMsg", "SendBusinessNotification",
                     "SendSimpleMessage"} =>
          hist.diffs <= Len(Accepted)
    /\ Batch =>
          /\ hist.diffs = Len(Accepted)
          /\ Len(resp.Results) = Len(Accepted)
          /\ Len(resp.FailedIDs) = Len(Refused)
          /\ pc = "done" /\ out.status = "success" =>
                Len(hist.submits) = Len(recvIDs)
    /\ ~Batch =>
          /\ Len(hist.submits) <= 1
          /\ out.status = "success" => (hist.diffs = 1 /\ Len(Accepted) = 1)

C6_Witness ==
    /\ Batch
    /\ pc = "done"
    /\ out.status = "success"
    /\ req.SendMsg.ContentType = OANotification
    /\ Len(hist.submits) = 2
    /\ hist.submits[1].ok
    /\ ~hist.submits[2].ok
    /\ hist.diffs = 1
    /\ Len(resp.Results) = 1

(***************************************************************************)
(* Properties of the submitted envelope (under Spec).                       *)
(***************************************************************************)
Submitted == ~IsNil(hist.lastSubmit)

\* C13: every envelope handed to the delivery backend has exactly one of
\* recipient ID and group ID set.
C13_ExactlyOneAddressee ==
    Submitted =>
        (Val(hist.lastSubmit).recvID = "") # (Val(hist.lastSubmit).groupID = "")

\* C14: the client message ID of a submitted envelope is fixed by the
\* envelope's sender ID alone: it is the ID derived from that sender ID
\* whatever clock reading and random number the derivation draws.
C14_ClientMsgIDFromSenderAlone ==
    Submitted =>
        \A e \in Envs :
           Val(hist.lastSubmit).clientMsgID =
               GetMsgIDByMD5(Val(hist.lastSubmit).sendID, e.salt)

IsOARequest ==
    /\ handler \in {"SendMessage", "BatchSendMsg"}
    /\ req.SendMsg.ContentType = OANotification

\* C15: for the OA notification content type the sender is looked up before
\* the content is decoded: the content is decoded, and an envelope exists,
\* only after one lookup; a failed lookup ends the request with the
\* lookup's error, no envelope built and nothing submitted; and an envelope
\* that is built has the notification session type whatever session type
\* the request gave.
C15_SenderCheckedBeforeDecoding ==
    IsOARequest =>
        /\ (pc = "decode" \/ ~IsNil(sendMsgReq) \/
            out.err \in {"ErrDecode", "ErrValidation"}) =>
               hist.senderChecks = 1
        /\ out.err = "ErrUnknownSender" =>
               /\ pc = "done"
               /\ hist.senderChecks = 1
               /\ IsNil(sendMsgReq)
               /\ hist.submits = <<>>
        /\ ~IsNil(sendMsgReq) =>
               Val(sendMsgReq).sessionType = NotificationChatType
        /\ Submitted =>
               Val(hist.lastSubmit).sessionType = NotificationChatType

\* an OA notification the caller sent as a single chat was submitted
C15_Witness ==
    /\ IsOARequest
    /\ req.SendMsg.SessionType = SingleChatType
    /\ hist.senderChecks = 1
    /\ Submitted
    /\ Val(hist.lastSubmit).sessionType = NotificationChatType

\* the request context was cancelled during the recipient loop of a batch
\* send, with recipients still to be served
CancelledInLoop ==
    /\ handler = "BatchSendMsg"
    /\ ~IsNil(hist.atCancel)
    /\ Val(hist.atCancel).pc = "loop"
    /\ Val(hist.atCancel).idx <= Len(recvIDs)

\* C16: when the request context is cancelled while a batch send is in
\* progress, no submission is made after the cancellation, and the request
\* ends with the error Canceled, not with a success response that lists the
\* remaining recipients as failed.
C16_CancelledBatchAborts ==
    CancelledInLoop =>
        /\ Len(hist.submits) = Val(hist.atCancel).submits
        /\ pc = "done" => (out.status = "error" /\ out.err = "Canceled")

\* the send timestamp the caller supplied: only the SendMsg parameters of
\* single and batch send carry one
SuppliedSendTime ==
    IF handler \in {"SendMessage", "BatchSendMsg"}
    THEN req.SendMsg.SendTime ELSE 0

\* C17: every submitted envelope, whatever the handler, carries the clock
\* reading taken when it was built as its creation time, and the send time
\* the caller supplied (zero when none was supplied) as its send time.
C17_CreateTimeIsNow ==
    Submitted =>
        /\ Val(hist.lastSubmit).createTime = env.now
        /\ Val(hist.lastSubmit).sendTime = SuppliedSendTime

(***************************************************************************)
(* Properties of the order of the calls (under Spec).                       *)
(***************************************************************************)
LastResult == resp.Results[Len(resp.Results)]

\* C18: a batch decodes the content and builds the envelope once; every
\* envelope it submits is that envelope with the recipient ID of the
\* recipient whose turn it is and nothing else changed; and the result
\* entry of an accepted submission names that recipient and reports
\* exactly the fields in which the acknowledged envelope differs from the
\* envelope submitted for that recipient.
C18_OneTemplatePerBatch ==
    Batch =>
        /\ hist.decodes <= 1
        /\ Submitted =>
              LET k == Len(hist.submits)
                  sent == Val(hist.lastSubmit)
              IN  /\ hist.decodes = 1
                  /\ ~IsNil(hist.built)
                  /\ sent = [Val(hist.built) EXCEPT !.recvID = recvIDs[k]]
                  /\ hist.submits[k].ok =>
                        /\ LastResult.RecvID = recvIDs[k]
                        /\ IF IsNil(respPb.Modify)
                           THEN IsNil(LastResult.Modify)
                           ELSE IF Differing(sent, Val(respPb.Modify)) = {}
                           THEN IsNil(LastResult.Modify)
                           ELSE /\ ~IsNil(LastResult.Modify)
                                /\ DOMAIN Val(LastResult.Modify) =
                                      Differing(sent, Val(respPb.Modify))

\* the second of two recipients had its envelope accepted and echoed
C18_Witness ==
    /\ Batch
    /\ recvIDs = <<"u1", "u2">>
    /\ Len(hist.submits) = 2
    /\ hist.submits[1].ok /\ hist.submits[2].ok
    /\ Val(hist.lastSubmit).recvID = "u2"
    /\ respPb.Modify = hist.lastSubmit
    /\ LastResult.RecvID = "u2"
    /\ IsNil(LastResult.Modify)

Single == handler = "SendMessage"

SendAll == Batch /\ req.IsSendAll

PageFailed == \E i \in 1..Len(hist.pages) : ~hist.pages[i].ok

\* C20: a send-to-all batch submits nothing before the directory has been
\* paged to its short last page, every page request having succeeded and
\* the recipients being the whole directory, and the content has been
\* decoded and the envelope built; and a batch that ends in an error, as it
\* does when a page request fails or the content is refused, has made no
\* submission, whatever pages it had fetched.
C20_NothingSentBeforeResolved ==
    SendAll =>
        /\ hist.submits # <<>> =>
              /\ hist.pages # <<>>
              /\ \A i \in 1..Len(hist.pages) :
                    /\ hist.pages[i].ok
                    /\ hist.pages[i].page = i
                    /\ (hist.pages[i].n < showNumber) = (i = Len(hist.pages))
              /\ Len(recvIDs) = env.dirTotal
              /\ hist.decodes = 1
              /\ ~IsNil(hist.built)
        /\ PageFailed => (out.status = "error" /\ hist.decodes = 0)
        /\ out.status = "error" => hist.submits = <<>>

\* the second page request failed after a full first page was fetched
C20_Witness ==
    /\ SendAll
    /\ Len(hist.pages) = 2
    /\ hist.pages[1].ok
    /\ ~hist.pages[2].ok
    /\ Len(recvIDs) = showNumber
    /\ out.status = "error"
    /\ hist.submits = <<>>

====
